---- MODULE Spec2Model ----
(***************************************************************************)
(* Model of reshape's action execution core: the table-creation action     *)
(* (src/migrations/create_table.rs) and the connection / transaction       *)
(* wrappers (src/db.rs), run against a PostgreSQL session.                 *)
(*                                                                         *)
(* Text is modelled as sequences of one-character strings, a statement as  *)
(* a sequence of tokens (each token a text).  The session lexes and parses *)
(* the tokens again, so quoting and case folding are observable.           *)
(***************************************************************************)
EXTENDS Integers, Sequences, FiniteSets, TLC

VARIABLES
    db,         \* the session's view of the database: [tables, rows]
    db0,        \* the database before the first operation
    schema,     \* the logical Schema: set of <<table, column>> entries
    migration,  \* the ordered actions (CreateTable values) of the migration
    issued,     \* every statement handed to Conn::run by an action, in order
    pc,         \* Orchestrator position: "run", "abort", "complete", "done", "failed"
    idx,        \* index of the action the Orchestrator handles next
    failedAt,   \* index of the action whose run failed (0: none)
    aborts,     \* indexes of the actions abort was invoked on, in order
    abortErr,   \* TRUE once a compensating abort returned an error
    calls,      \* lifecycle calls made directly on actions: [op, act, ok]
    prev,       \* [db, issued, tx] right before the last lifecycle call
    tx,         \* transaction opened from the root connection: "none", "open", "failed"
    snap,       \* database when the latest transaction was opened (else: db)
    txLog,      \* statements of the latest transaction, until the root is used again
    last        \* the last Conn operation: [op, ok, before]

vars == <<db, db0, schema, migration, issued, pc, idx, failedAt, aborts,
          abortErr, calls, prev, tx, snap, txLog, last>>

----------------------------------------------------------------------------
(* Bounds *)

NumNames   == 3   \* table names drawn from the first NumNames of NamePool
MaxActions == 2   \* actions in a migration
MaxCols    == 2   \* columns / primary-key entries of a table definition
MaxCalls   == 2   \* direct lifecycle calls in one behaviour
MaxStmts   == 2   \* statements and queries inside one transaction
MaxParams  == 2   \* parameters passed to query_with_params

----------------------------------------------------------------------------
(* Text and identifiers *)

DQ == "\""

Users == <<"u", "s", "e", "r", "s">>
Id    == <<"i", "d">>

NamePool == << Users, <<"A">>, <<"a", "-", "b">>, <<"B">>, <<"a">>, <<"b">> >>

Min(x, y) == IF x < y THEN x ELSE y

TableNames == { NamePool[i] : i \in 1..Min(NumNames, Len(NamePool)) }

\* format!("\"{}\"", s)
Quote(s) == <<DQ>> \o s \o <<DQ>>

\* a keyword or punctuation token of the statement text
KW(w) == <<w>>

LP    == KW("(")
RP    == KW(")")
Comma == KW(",")

UpperCase == {"A", "B"}
LowerCase == {"a", "b", "d", "e", "i", "n", "r", "s", "u"}

\* PostgreSQL folds the letters of an unquoted identifier to lower case
ToLower(c) == CASE c = "A" -> "a" [] c = "B" -> "b" [] OTHER -> c

\* The session's identifier lexer: a delimited identifier is taken verbatim,
\* an unquoted one must consist of identifier characters and is folded.
LexIdent(tok) ==
    IF Len(tok) >= 2 /\ tok[1] = DQ /\ tok[Len(tok)] = DQ
    THEN [ok |-> Len(tok) > 2, name |-> SubSeq(tok, 2, Len(tok) - 1)]
    ELSE IF tok # <<>> /\ \A i \in 1..Len(tok) : tok[i] \in UpperCase \cup LowerCase
    THEN [ok |-> TRUE, name |-> [i \in 1..Len(tok) |-> ToLower(tok[i])]]
    ELSE [ok |-> FALSE, name |-> <<>>]

\* Vec<String>::join(sep) over token sequences
RECURSIVE Join(_, _)
Join(rows, sep) ==
    IF rows = <<>> THEN <<>>
    ELSE IF Len(rows) = 1 THEN rows[1]
    ELSE rows[1] \o <<sep>> \o Join(Tail(rows), sep)

\* split a token sequence at the separators outside parentheses
RECURSIVE SplitTop(_, _, _, _)
SplitTop(toks, depth, cur, acc) ==
    IF toks = <<>> THEN Append(acc, cur)
    ELSE LET t == Head(toks)
             d == IF t = LP THEN depth + 1 ELSE IF t = RP THEN depth - 1 ELSE depth
         IN  IF t = Comma /\ depth = 0
             THEN SplitTop(Tail(toks), 0, <<>>, Append(acc, cur))
             ELSE SplitTop(Tail(toks), d, Append(cur, t), acc)

SeqToSet(s) == { s[i] : i \in 1..Len(s) }

NoDup(s) == \A i, j \in 1..Len(s) : s[i] = s[j] => i = j

----------------------------------------------------------------------------
(* The table-creation action: statement assembly *)

\* one element of definition_rows for a column (parts, joined by " ")
ColumnRow(column) ==
    <<Quote(column.name), KW(column.data_type)>>
    \o (IF column.default # <<>> THEN <<KW("DEFAULT"), KW(column.default[1])>> ELSE <<>>)
    \o (IF ~column.nullable THEN <<KW("NOT NULL")>> ELSE <<>>)
    \o (IF column.generated # <<>> THEN <<KW("GENERATED"), KW(column.generated[1])>> ELSE <<>>)

\* .iter().map(|col| format!("\"{}\"", col)).collect()
QuoteAll(cols) == [i \in 1..Len(cols) |-> Quote(cols[i])]

AsRows(toks) == [i \in 1..Len(toks) |-> <<toks[i]>>]

PrimaryKeyRow(primary_key) ==
    <<KW("PRIMARY KEY"), LP>> \o Join(AsRows(QuoteAll(primary_key)), Comma) \o <<RP>>

ForeignKeyRow(foreign_key) ==
    <<KW("FOREIGN KEY"), LP>>
    \o Join(AsRows(QuoteAll(foreign_key.columns)), Comma)
    \o <<RP, KW("REFERENCES"), Quote(foreign_key.referenced_table), LP>>
    \o Join(AsRows(QuoteAll(foreign_key.referenced_columns)), Comma)
    \o <<RP>>

\* a variant that collects the column rows in reverse order
DefinitionRowsReversed(action) ==
    [i \in 1..Len(action.columns) |->
        ColumnRow(action.columns[Len(action.columns) + 1 - i])]
    \o <<PrimaryKeyRow(action.primary_key)>>
    \o [i \in 1..Len(action.foreign_keys) |-> ForeignKeyRow(action.foreign_keys[i])]

DefinitionRows(action) ==
    [i \in 1..Len(action.columns) |-> ColumnRow(action.columns[i])]
    \o <<PrimaryKeyRow(action.primary_key)>>
    \o [i \in 1..Len(action.foreign_keys) |-> ForeignKeyRow(action.foreign_keys[i])]

\* the text CreateTable::run hands to db.run
CreateStatement(action) ==
    <<KW("CREATE TABLE"), Quote(action.name), LP>>
    \o Join(DefinitionRows(action), Comma)
    \o <<RP>>

\* the text CreateTable::abort hands to db.run: the name is not quoted
DropStatement(action) == <<KW("DROP TABLE IF EXISTS"), action.name>>

----------------------------------------------------------------------------
(* The PostgreSQL session: parsing and executing a statement *)

HasRP(row, p) == \E q \in (p + 1)..Len(row) : row[q] = RP

FirstRP(row, p) ==
    CHOOSE q \in (p + 1)..Len(row) :
        row[q] = RP /\ \A k \in (p + 1)..(q - 1) : row[k] # RP

BadList(p) == [ok |-> FALSE, items |-> <<>>, next |-> p]

BadIdent == [ok |-> FALSE, name |-> <<>>]

\* the identifiers of a comma separated list, already split into parts
ListItems(parts, next) ==
    IF \A i \in 1..Len(parts) : Len(parts[i]) = 1 /\ LexIdent(parts[i][1]).ok
    THEN [ok |-> TRUE, items |-> [i \in 1..Len(parts) |-> LexIdent(parts[i][1]).name],
          next |-> next]
    ELSE BadList(next)

\* a parenthesised, comma separated identifier list starting at row[p]
ParenList(row, p) ==
    IF p > Len(row) \/ row[p] # LP \/ ~HasRP(row, p)
    THEN BadList(p)
    ELSE ListItems(SplitTop(SubSeq(row, p + 1, FirstRP(row, p) - 1), 0, <<>>, <<>>),
                   FirstRP(row, p) + 1)

IsPkRow(row) == row # <<>> /\ row[1] = KW("PRIMARY KEY")
IsFkRow(row) == row # <<>> /\ row[1] = KW("FOREIGN KEY")
IsColRow(row) == ~IsPkRow(row) /\ ~IsFkRow(row)

\* FOREIGN KEY (l) REFERENCES t (r)
FkClause(row, l, t, r) ==
    [ok      |-> l.ok /\ t.ok /\ r.ok /\ r.next = Len(row) + 1,
     columns |-> l.items, table |-> t.name, refcols |-> r.items]

FkAfterColumns(row, l) ==
    IF l.ok /\ l.next + 1 <= Len(row) /\ row[l.next] = KW("REFERENCES")
    THEN FkClause(row, l, LexIdent(row[l.next + 1]), ParenList(row, l.next + 2))
    ELSE FkClause(row, l, BadIdent, BadList(0))

ParseFk(row) == FkAfterColumns(row, ParenList(row, 2))

\* the parsed statement, from its name, column rows, key lists and foreign keys
CreateClauses(ident, colRows, pkRows, pkList, fks) ==
    IF /\ ident.ok
       /\ \A i \in 1..Len(colRows) : Len(colRows[i]) >= 2 /\ LexIdent(colRows[i][1]).ok
       /\ Len(pkRows) <= 1
       /\ \A i \in 1..Len(pkRows) : pkList[i].ok /\ pkList[i].next = Len(pkRows[i]) + 1
       /\ \A i \in 1..Len(fks) : fks[i].ok
    THEN [ok   |-> TRUE,
          name |-> ident.name,
          cols |-> [i \in 1..Len(colRows) |-> LexIdent(colRows[i][1]).name],
          pk   |-> IF Len(pkRows) = 1 THEN pkList[1].items ELSE <<>>,
          fks  |-> fks]
    ELSE [ok |-> FALSE, name |-> ident.name, cols |-> <<>>, pk |-> <<>>, fks |-> <<>>]

CreateRows(ident, colRows, pkRows, fkRows) ==
    CreateClauses(ident, colRows, pkRows,
                  [i \in 1..Len(pkRows) |-> ParenList(pkRows[i], 2)],
                  [i \in 1..Len(fkRows) |-> ParseFk(fkRows[i])])

CreateBody(ident, rows) ==
    CreateRows(ident, SelectSeq(rows, IsColRow), SelectSeq(rows, IsPkRow),
               SelectSeq(rows, IsFkRow))

\* CREATE TABLE <ident> ( <column>, ... , PRIMARY KEY (...), FOREIGN KEY ... )
ParseCreate(stmt) ==
    IF Len(stmt) >= 5 /\ stmt[1] = KW("CREATE TABLE") /\ stmt[3] = LP /\ stmt[Len(stmt)] = RP
    THEN CreateBody(LexIdent(stmt[2]),
                    SplitTop(SubSeq(stmt, 4, Len(stmt) - 1), 0, <<>>, <<>>))
    ELSE CreateClauses(BadIdent, <<>>, <<>>, <<>>, <<>>)

TableNamesOf(d) == { t.name : t \in d.tables }

TableOf(d, name) == CHOOSE t \in d.tables : t.name = name

\* a foreign key must use declared columns and reference the key of an
\* existing table, or of the table being created
FkResolves(fk, p, d) ==
    /\ fk.columns # <<>>
    /\ SeqToSet(fk.columns) \subseteq SeqToSet(p.cols)
    /\ Len(fk.columns) = Len(fk.refcols)
    /\ IF fk.table = p.name
       THEN SeqToSet(fk.refcols) = SeqToSet(p.pk) /\ Len(fk.refcols) = Len(p.pk)
       ELSE /\ fk.table \in TableNamesOf(d)
            /\ fk.refcols = TableOf(d, fk.table).key

CreateParsed(p, d) ==
    IF /\ p.ok
       /\ p.name \notin TableNamesOf(d)
       /\ NoDup(p.cols)
       /\ NoDup(p.pk)
       /\ SeqToSet(p.pk) \subseteq SeqToSet(p.cols)
       /\ \A i \in 1..Len(p.fks) : FkResolves(p.fks[i], p, d)
    THEN [ok |-> TRUE,
          db |-> [d EXCEPT !.tables =
                     @ \cup {[name |-> p.name, key |-> p.pk,
                              refs |-> { p.fks[i].table : i \in 1..Len(p.fks) }]}]]
    ELSE [ok |-> FALSE, db |-> d]

\* CREATE TABLE: rejected on a syntax error, a duplicate table, a duplicate or
\* undeclared column, or an unresolved foreign key
ExecCreate(stmt, d) == CreateParsed(ParseCreate(stmt), d)

DropIdent(ident, d) ==
    IF ~ident.ok THEN [ok |-> FALSE, db |-> d]
    ELSE IF ident.name \notin TableNamesOf(d) THEN [ok |-> TRUE, db |-> d]
    ELSE IF \E t \in d.tables : t.name # ident.name /\ ident.name \in t.refs
    THEN [ok |-> FALSE, db |-> d]
    ELSE [ok |-> TRUE,
          db |-> [tables |-> { t \in d.tables : t.name # ident.name },
                  rows   |-> { r \in d.rows : r[1] # ident.name }]]

\* DROP TABLE IF EXISTS <ident>: a missing table is only a notice; a table
\* other tables reference cannot be dropped without CASCADE
ExecDrop(stmt, d) ==
    DropIdent(IF Len(stmt) = 2 THEN LexIdent(stmt[2]) ELSE BadIdent, d)

\* batch_execute(query)
Exec(stmt, d) ==
    IF stmt # <<>> /\ stmt[1] = KW("CREATE TABLE") THEN ExecCreate(stmt, d)
    ELSE IF stmt # <<>> /\ stmt[1] = KW("DROP TABLE IF EXISTS") THEN ExecDrop(stmt, d)
    ELSE [ok |-> FALSE, db |-> d]

\* the parameterised statements: one and two placeholders
InsertQuery(name) ==
    <<KW("INSERT INTO"), Quote(name), KW("VALUES"), LP, KW("$1"), RP, KW("RETURNING *")>>

DeleteQuery(name) ==
    <<KW("DELETE FROM"), Quote(name), KW("WHERE id IN"), LP, KW("$1"), Comma, KW("$2"), RP,
      KW("RETURNING *")>>

Placeholders(stmt) == { stmt[i] : i \in 1..Len(stmt) } \cap {KW("$1"), KW("$2")}

Prepared(ok, ident, stmt, d) ==
    [ok      |-> ok /\ ident.ok /\ ident.name \in TableNamesOf(d),
     table   |-> ident.name,
     nparams |-> Cardinality(Placeholders(stmt))]

\* prepare: parse the statement, resolve the table, count the placeholders
Prepare(stmt, d) ==
    IF Len(stmt) >= 2 /\ stmt[1] \in {KW("INSERT INTO"), KW("DELETE FROM")}
    THEN Prepared(TRUE, LexIdent(stmt[2]), stmt, d)
    ELSE Prepared(FALSE, BadIdent, stmt, d)

ExecOn(t, stmt, params, d) ==
    IF stmt[1] = KW("INSERT INTO")
    THEN IF <<t, params[1]>> \in d.rows
         THEN [ok |-> FALSE, db |-> d]
         ELSE [ok |-> TRUE, db |-> [d EXCEPT !.rows = @ \cup {<<t, params[1]>>}]]
    ELSE [ok |-> TRUE,
          db |-> [d EXCEPT !.rows = @ \ {<<t, params[i]>> : i \in 1..Len(params)}]]

\* execute a prepared statement with its bound parameters
ExecPrepared(stmt, params, d) == ExecOn(Prepare(stmt, d).table, stmt, params, d)

Executed(r) == [ok |-> r.ok, db |-> r.db, rejected |-> ~r.ok]

\* a variant that binds whatever parameters it is given without counting them
ClientQueryUncounted(stmt, params, d) ==
    IF ~Prepare(stmt, d).ok \/ params = <<>>
    THEN [ok |-> FALSE, db |-> d, rejected |-> TRUE]
    ELSE Executed(ExecPrepared(stmt, params, d))

\* client.query(query, params): prepare, compare the parameter count with the
\* placeholders, then bind and execute
ClientQuery(stmt, params, d) ==
    IF ~Prepare(stmt, d).ok THEN [ok |-> FALSE, db |-> d, rejected |-> TRUE]
    ELSE IF Prepare(stmt, d).nparams # Len(params)
    THEN [ok |-> FALSE, db |-> d, rejected |-> FALSE]
    ELSE Executed(ExecPrepared(stmt, params, d))

----------------------------------------------------------------------------
(* src/db.rs: the root connection *)

\* DbConn::run
DbConnRun(query, d) == Exec(query, d)

\* DbConn::query_with_params
DbConnQueryWithParams(query, params, d) == ClientQuery(query, params, d)

----------------------------------------------------------------------------
(* src/db.rs: a transaction opened from the root connection.  A statement  *)
(* the session rejects leaves the transaction failed: every later          *)
(* statement is rejected and COMMIT rolls back.                            *)

InTransaction(r, failed) ==
    [ok |-> r.ok, db |-> r.db, tx |-> IF failed THEN "failed" ELSE "open"]

\* Transaction::run
TransactionRun(query, d, t) ==
    IF t = "failed" THEN [ok |-> FALSE, db |-> d, tx |-> "failed"]
    ELSE InTransaction(Exec(query, d), ~Exec(query, d).ok)

\* Transaction::query_with_params
TransactionQueryWithParams(query, params, d, t) ==
    IF t = "failed" THEN [ok |-> FALSE, db |-> d, tx |-> "failed"]
    ELSE InTransaction(ClientQuery(query, params, d), ClientQuery(query, params, d).rejected)

\* a variant whose commit discards the transaction's work
CommitRollsBack(d, t, sn) == [ok |-> TRUE, db |-> sn]

\* Transaction::commit
Commit(d, t, sn) == [ok |-> TRUE, db |-> IF t = "open" THEN d ELSE sn]

\* the Transaction value goes out of scope without commit: rollback
Rollback(d, t, sn) == [ok |-> TRUE, db |-> sn]

----------------------------------------------------------------------------
(* src/migrations/create_table.rs: the lifecycle of CreateTable *)

Issued(r, stmt) == [ok |-> r.ok, db |-> r.db, stmts |-> <<stmt>>]

\* a variant that drops the result of db.run instead of propagating it
RunIgnoresError(action, d) ==
    [ok |-> TRUE, db |-> DbConnRun(CreateStatement(action), d).db,
     stmts |-> <<CreateStatement(action)>>]

\* CreateTable::run: one db.run of the assembled statement
Run(action, d) ==
    Issued(DbConnRun(CreateStatement(action), d), CreateStatement(action))

\* a variant that opens a transaction and returns it as pending
CompleteOpensTransaction(action, d) ==
    [ok |-> TRUE, pending |-> <<"transaction">>, db |-> d, stmts |-> <<>>, opened |-> TRUE]

\* CreateTable::complete: "Do nothing", Ok(None)
Complete(action, d) ==
    [ok |-> TRUE, pending |-> <<>>, db |-> d, stmts |-> <<>>, opened |-> FALSE]

\* a variant that registers the new table's columns in the Schema
UpdateSchemaRegisters(action, sch) ==
    sch \cup { <<action.name, action.columns[i].name>> : i \in 1..Len(action.columns) }

\* CreateTable::update_schema: empty body
UpdateSchema(action, sch) == sch

\* CreateTable::abort: one db.run of the drop statement
Abort(action, d) ==
    Issued(DbConnRun(DropStatement(action), d), DropStatement(action))

----------------------------------------------------------------------------
(* Inputs *)

SeqsUpTo(S, n) == UNION { [1..k -> S] : k \in 1..n }

ColId == [name |-> Id, data_type |-> "bigint", nullable |-> FALSE,
          default |-> <<>>, generated |-> <<>>]
ColN  == [name |-> <<"n">>, data_type |-> "text", nullable |-> TRUE,
          default |-> <<"0">>, generated |-> <<>>]

ColumnPool == {ColId, ColN}

ColumnNames == { c.name : c \in ColumnPool }

FkTo(m) == [columns |-> <<Id>>, referenced_table |-> m, referenced_columns |-> <<Id>>]

\* a table keyed on "id", with or without one foreign key
SimpleAction(n, fks) ==
    [name |-> n, columns |-> <<ColId>>, primary_key |-> <<Id>>, foreign_keys |-> fks]

\* the tables foreign keys reference
FkTargets == {Users, <<"A">>}

\* actions of a migration: every name, no foreign key or one to a target
MigrationActions ==
    { SimpleAction(n, fks) :
        n \in TableNames, fks \in {<<>>} \cup { <<FkTo(m)>> : m \in FkTargets } }

\* actions whose column and primary-key lists vary
ShapedActions ==
    { [name |-> Users, columns |-> cs, primary_key |-> pk, foreign_keys |-> <<>>] :
        cs \in SeqsUpTo(ColumnPool, MaxCols),
        pk \in SeqsUpTo(ColumnNames, MaxCols) }

Table(n, refs) == [name |-> n, key |-> <<Id>>, refs |-> refs]

EmptyDb == [tables |-> {}, rows |-> {}]

\* databases a migration may start from: empty, one table, or one table and
\* a second one referencing it
PreDbs ==
    {EmptyDb}
    \cup { [tables |-> {Table(n, {})}, rows |-> {}] : n \in TableNames }
    \cup { [tables |-> {Table(nm[1], {}), Table(nm[2], {nm[1]})}, rows |-> {}] :
             nm \in { p \in TableNames \X TableNames : p[1] # p[2] } }

\* the tables of the statements sent straight to a Conn
ConnNames == {Users, <<"A">>}

RunStatements ==
    { CreateStatement(SimpleAction(n, <<>>)) : n \in ConnNames }
    \cup { DropStatement(SimpleAction(n, <<>>)) : n \in ConnNames }

Queries == { InsertQuery(n) : n \in ConnNames } \cup { DeleteQuery(n) : n \in ConnNames }

ParamValues == {1}

ParamLists == {<<>>} \cup SeqsUpTo(ParamValues, MaxParams)

NoLast == [op |-> "none", ok |-> TRUE, mismatch |-> FALSE, before |-> EmptyDb]

Idle ==
    /\ pc = "idle" /\ idx = 0 /\ failedAt = 0 /\ aborts = <<>> /\ abortErr = FALSE

Quiet ==
    /\ schema = {} /\ issued = <<>> /\ calls = <<>>
    /\ tx = "none" /\ txLog = <<>> /\ last = NoLast
    /\ db0 = db /\ snap = db
    /\ prev = [db |-> db, issued |-> <<>>, tx |-> "none"]

----------------------------------------------------------------------------
(* The Orchestrator's protocol (section 4.4 of the specification) *)

Init ==
    /\ db \in PreDbs
    /\ migration \in SeqsUpTo(MigrationActions, MaxActions)
    /\ pc = "run" /\ idx = 1 /\ failedAt = 0 /\ aborts = <<>> /\ abortErr = FALSE
    /\ Quiet

\* (b) run the next action, then update_schema on success; (c) on failure
\* turn to the actions that ran before, last first
OrchRun ==
    /\ pc = "run"
    /\ LET a == migration[idx]
           r == Run(a, db)
       IN  /\ db' = r.db
           /\ issued' = issued \o r.stmts
           /\ IF r.ok
              THEN /\ schema' = UpdateSchema(a, schema)
                   /\ failedAt' = failedAt
                   /\ IF idx = Len(migration)
                      THEN pc' = "complete" /\ idx' = 1
                      ELSE pc' = "run" /\ idx' = idx + 1
              ELSE /\ schema' = schema
                   /\ failedAt' = idx
                   /\ idx' = idx - 1
                   /\ pc' = IF idx = 1 THEN "failed" ELSE "abort"
    /\ UNCHANGED <<db0, migration, aborts, abortErr, calls, prev, tx, snap, txLog, last>>

\* (c) abort one action that previously ran, in reverse order
OrchAbort ==
    /\ pc = "abort"
    /\ LET r == Abort(migration[idx], db)
       IN  /\ db' = r.db
           /\ issued' = issued \o r.stmts
           /\ aborts' = Append(aborts, idx)
           /\ abortErr' = (abortErr \/ ~r.ok)
           /\ idx' = idx - 1
           /\ pc' = IF idx = 1 THEN "failed" ELSE "abort"
    /\ UNCHANGED <<db0, schema, migration, failedAt, calls, prev, tx, snap, txLog, last>>

\* (d) once every run succeeded, complete each action in order and commit
\* the transaction it returns, if any
OrchComplete ==
    /\ pc = "complete"
    /\ LET r == Complete(migration[idx], db)
       IN  /\ db' = r.db
           /\ issued' = issued \o r.stmts
           /\ tx' = IF r.opened THEN "open" ELSE tx
           /\ IF idx = Len(migration)
              THEN pc' = "done" /\ idx' = idx
              ELSE pc' = "complete" /\ idx' = idx + 1
    /\ UNCHANGED <<db0, schema, migration, failedAt, aborts, abortErr, calls, prev,
                   snap, txLog, last>>

Next == OrchRun \/ OrchAbort \/ OrchComplete

Spec == Init /\ [][Next]_vars

----------------------------------------------------------------------------
(* Lifecycle operations called directly on one action *)

InitAction ==
    /\ db \in PreDbs
    /\ migration \in { <<a>> : a \in ShapedActions \cup MigrationActions }
    /\ Idle
    /\ Quiet

\* bookkeeping shared by the calls: the call is logged with its result
\* (pending: the Option<Transaction> complete returns, <<>> for None)
Called(op, ok, pending) ==
    /\ Len(calls) < MaxCalls
    /\ calls' = Append(calls, [op |-> op, ok |-> ok, pending |-> pending])
    /\ prev' = [db |-> db, issued |-> issued, tx |-> tx]
    /\ UNCHANGED <<db0, migration, pc, idx, failedAt, aborts, abortErr,
                   snap, txLog, last>>

CallRun ==
    LET r == Run(migration[1], db)
    IN  /\ Called("run", r.ok, <<>>)
        /\ db' = r.db
        /\ issued' = issued \o r.stmts
        /\ UNCHANGED <<schema, tx>>

CallComplete ==
    LET r == Complete(migration[1], db)
    IN  /\ Called("complete", r.ok, r.pending)
        /\ db' = r.db
        /\ issued' = issued \o r.stmts
        /\ tx' = IF r.opened THEN "open" ELSE tx
        /\ UNCHANGED schema

CallUpdateSchema ==
    /\ Called("update_schema", TRUE, <<>>)
    /\ schema' = UpdateSchema(migration[1], schema)
    /\ UNCHANGED <<db, issued, tx>>

CallAbort ==
    LET r == Abort(migration[1], db)
    IN  /\ Called("abort", r.ok, <<>>)
        /\ db' = r.db
        /\ issued' = issued \o r.stmts
        /\ UNCHANGED <<schema, tx>>

NextAction == CallRun \/ CallComplete \/ CallUpdateSchema \/ CallAbort

SpecAction == InitAction /\ [][NextAction]_vars

----------------------------------------------------------------------------
(* Statements and queries sent straight to a Conn *)

InitConn ==
    /\ db \in {EmptyDb} \cup { [tables |-> {Table(n, {})}, rows |-> {}] : n \in ConnNames }
    /\ migration = <<>>
    /\ Idle
    /\ Quiet

Mismatch(q, params) == Cardinality(Placeholders(q)) # Len(params)

KeepMigration ==
    UNCHANGED <<db0, schema, migration, issued, pc, idx, failedAt, aborts, abortErr,
                calls, prev>>

RootRun ==
    /\ tx = "none"
    /\ \E q \in RunStatements :
         LET r == DbConnRun(q, db)
         IN  /\ db' = r.db
             /\ last' = [op |-> "run", ok |-> r.ok, mismatch |-> FALSE, before |-> db]
             /\ snap' = r.db
    /\ txLog' = <<>>
    /\ UNCHANGED tx
    /\ KeepMigration

RootQueryWithParams ==
    /\ tx = "none"
    /\ \E q \in Queries, params \in ParamLists :
         LET r == DbConnQueryWithParams(q, params, db)
         IN  /\ db' = r.db
             /\ last' = [op |-> "query_with_params", ok |-> r.ok,
                         mismatch |-> Mismatch(q, params), before |-> db]
             /\ snap' = r.db
    /\ txLog' = <<>>
    /\ UNCHANGED tx
    /\ KeepMigration

\* DbConn::transaction
OpenTx ==
    /\ tx = "none"
    /\ tx' = "open"
    /\ snap' = db
    /\ txLog' = <<>>
    /\ last' = [op |-> "transaction", ok |-> TRUE, mismatch |-> FALSE, before |-> db]
    /\ UNCHANGED db
    /\ KeepMigration

TxRun ==
    /\ tx # "none"
    /\ Len(txLog) < MaxStmts
    /\ \E q \in RunStatements :
         LET r == TransactionRun(q, db, tx)
         IN  /\ db' = r.db
             /\ tx' = r.tx
             /\ txLog' = Append(txLog, [op |-> "run", stmt |-> q, ok |-> r.ok])
             /\ last' = [op |-> "run", ok |-> r.ok, mismatch |-> FALSE, before |-> db]
    /\ UNCHANGED snap
    /\ KeepMigration

TxQueryWithParams ==
    /\ tx # "none"
    /\ Len(txLog) < MaxStmts
    /\ \E q \in Queries, params \in ParamLists :
         LET r == TransactionQueryWithParams(q, params, db, tx)
         IN  /\ db' = r.db
             /\ tx' = r.tx
             /\ txLog' = Append(txLog, [op |-> "query_with_params", stmt |-> q, ok |-> r.ok])
             /\ last' = [op |-> "query_with_params", ok |-> r.ok,
                         mismatch |-> Mismatch(q, params), before |-> db]
    /\ UNCHANGED snap
    /\ KeepMigration

TxCommit ==
    /\ tx # "none"
    /\ LET r == Commit(db, tx, snap)
       IN  /\ db' = r.db
           /\ last' = [op |-> "commit", ok |-> r.ok, mismatch |-> FALSE, before |-> db]
    /\ tx' = "none"
    /\ UNCHANGED <<snap, txLog>>
    /\ KeepMigration

TxScopeEnd ==
    /\ tx # "none"
    /\ LET r == Rollback(db, tx, snap)
       IN  /\ db' = r.db
           /\ last' = [op |-> "scope_end", ok |-> r.ok, mismatch |-> FALSE, before |-> db]
    /\ tx' = "none"
    /\ UNCHANGED <<snap, txLog>>
    /\ KeepMigration

NextConn ==
    \/ RootRun
    \/ RootQueryWithParams
    \/ OpenTx
    \/ TxRun
    \/ TxQueryWithParams
    \/ TxCommit
    \/ TxScopeEnd

SpecConn == InitConn /\ [][NextConn]_vars

----------------------------------------------------------------------------
(* Properties of the Orchestrator-driven migration (Spec) *)

\* C1: once a failing migration has had abort invoked, in reverse order, on
\* the actions that ran, the set of tables equals the set that existed
\* before the migration started.
C1_AbortRestoresTables ==
    pc = "failed" => TableNamesOf(db) = TableNamesOf(db0)

SameNameTwice ==
    /\ Len(migration) = 2
    /\ migration[1].name = migration[2].name
    /\ migration[1].name \notin TableNamesOf(db0)
    /\ \A i \in 1..Len(migration[1].foreign_keys) :
           migration[1].foreign_keys[i].referenced_table
               \in TableNamesOf(db0) \cup {migration[1].name}

\* C5: two table-creation actions with the same name back to back (the
\* first one valid in the starting database): the first run succeeds, the
\* second fails without changing the database, and abort is invoked only on
\* the first action.
C5_DuplicateFailsAbortFirstOnly ==
    SameNameTwice =>
        /\ failedAt # 1
        /\ pc \notin {"complete", "done"}
        /\ aborts \in {<<>>, <<1>>}
        /\ (pc = "run" /\ idx = 2) =>
               TableNamesOf(db) = TableNamesOf(db0) \cup {migration[1].name}
        /\ (pc = "abort") =>
               /\ failedAt = 2 /\ idx = 1 /\ Len(issued) = 2
               /\ TableNamesOf(db) = TableNamesOf(db0) \cup {migration[1].name}
               /\ db = Run(migration[1], db0).db
        /\ (pc = "failed") => (failedAt = 2 /\ aborts = <<1>>)

C5_Witness ==
    /\ SameNameTwice
    /\ pc = "failed" /\ failedAt = 2 /\ aborts = <<1>>

----------------------------------------------------------------------------
(* Properties of the lifecycle operations called directly (SpecAction) *)

LastCall == calls[Len(calls)]

LastIs(op) == calls # <<>> /\ LastCall.op = op

LastTwoAre(op1, op2) ==
    Len(calls) >= 2 /\ calls[Len(calls) - 1].op = op1 /\ LastCall.op = op2

\* C2: after a successful run created the table under the quoted name,
\* a subsequent abort of the same action leaves no table of that name.
C2_AbortRemovesCreatedTable ==
    (LastTwoAre("run", "abort") /\ calls[Len(calls) - 1].ok)
        => migration[1].name \notin TableNamesOf(db)

UsersAction == SimpleAction(Users, <<>>)

RanThenUpdatedSchema ==
    /\ migration = <<UsersAction>>
    /\ LastTwoAre("run", "update_schema")
    /\ calls[Len(calls) - 1].ok

\* C3 (as stated): after the single-action migration creating "users" with
\* column "id" has run and update_schema was invoked, the Schema has an entry
\* for "users"/"id".
C3_SchemaRegistersUsers ==
    RanThenUpdatedSchema => <<Users, Id>> \in schema

\* C3 (amended): after that run and update_schema, the Schema is what it was
\* before the migration; update_schema registers no "users"/"id" entry.
C3_SchemaUntouched ==
    RanThenUpdatedSchema => (schema = {} /\ <<Users, Id>> \notin schema)

C3_Witness ==
    /\ RanThenUpdatedSchema
    /\ Users \in TableNamesOf(db)
    /\ schema = {}

\* C4: abort returns success in every database state, and a second abort
\* returns success and leaves the database as the first abort left it.
C4_AbortAlwaysSucceedsIdempotent ==
    /\ LastIs("abort") => LastCall.ok
    /\ LastTwoAre("abort", "abort") => (LastCall.ok /\ db = prev.db)

DeclaredColumns == [i \in 1..Len(migration[1].columns) |-> migration[1].columns[i].name]

\* C7: run hands exactly one statement to the connection; its column clause
\* lists all N columns in declaration order and its primary-key clause lists
\* the primary-key columns in declared order.
C7_OneStatementInDeclaredOrder ==
    LastIs("run") =>
        /\ Len(issued) = Len(prev.issued) + 1
        /\ SubSeq(issued, 1, Len(prev.issued)) = prev.issued
        /\ LET p == ParseCreate(issued[Len(issued)])
           IN  /\ p.ok
               /\ p.name = migration[1].name
               /\ p.cols = DeclaredColumns
               /\ p.pk = migration[1].primary_key

C7_Witness ==
    /\ LastIs("run") /\ LastCall.ok
    /\ Len(migration[1].columns) = 2
    /\ migration[1].primary_key = <<DeclaredColumns[2], DeclaredColumns[1]>>
    /\ migration[1].name \in TableNamesOf(db)

\* C8: complete is a no-op: it returns success with no pending transaction,
\* issues no statement, opens no transaction and leaves the database as is.
C8_CompleteIsNoOp ==
    LastIs("complete") =>
        /\ LastCall.ok
        /\ LastCall.pending = <<>>
        /\ issued = prev.issued
        /\ tx = prev.tx /\ tx = "none"
        /\ db = prev.db

C8_Witness ==
    /\ LastTwoAre("run", "complete")
    /\ calls[Len(calls) - 1].ok
    /\ migration[1].name \in TableNamesOf(db)
    /\ issued = prev.issued

\* C10: if run failed because a table of that name existed before, abort of
\* that action leaves the pre-existing table present.
C10_AbortKeepsPreexistingTable ==
    (/\ migration[1].name \in TableNamesOf(db0)
     /\ calls # <<>> /\ calls[1].op = "run" /\ ~calls[1].ok
     /\ Len(calls) = 2 /\ calls[2].op = "abort")
        => migration[1].name \in TableNamesOf(db)

----------------------------------------------------------------------------
(* Properties of the connection and its transaction (SpecConn) *)

TwoRan == Len(txLog) = 2 /\ \A i \in 1..2 : txLog[i].op = "run"

TwoRanOk == TwoRan /\ \A i \in 1..2 : txLog[i].ok

\* what a statement, taken alone, leaves visible
Visible(stmt, d) ==
    IF stmt[1] = KW("CREATE TABLE")
    THEN LexIdent(stmt[2]).name \in TableNamesOf(d)
    ELSE LexIdent(stmt[2]).name \notin TableNamesOf(d)

\* C6: statements S1 then S2 run in a transaction opened from the root
\* connection: after commit the effects of both are visible on the root
\* connection; when the scope ends without commit neither effect is.
C6_CommitKeepsScopeEndDiscards ==
    /\ (last.op = "commit" /\ TwoRanOk) =>
           /\ db = Exec(txLog[2].stmt, Exec(txLog[1].stmt, snap).db).db
           /\ Visible(txLog[2].stmt, db)
           /\ (LexIdent(txLog[1].stmt[2]).name # LexIdent(txLog[2].stmt[2]).name
                  => Visible(txLog[1].stmt, db))
    /\ (last.op = "scope_end" /\ TwoRan) => db = snap

C6_Witness ==
    /\ last.op = "commit" /\ TwoRanOk
    /\ txLog[1].stmt[1] = KW("CREATE TABLE")
    /\ txLog[2].stmt[1] = KW("CREATE TABLE")
    /\ Cardinality(db.tables) = Cardinality(snap.tables) + 2

====
